---------------------------- MODULE Spec2Model ----------------------------
(***************************************************************************)
(* SnapBit API (BenLovesBots/snapbit-api): the express service that        *)
(* brokers the Roblox OAuth2 authorization-code flow and keeps the         *)
(* per-user token ledger.                                                  *)
(*                                                                         *)
(* The repository holds several revisions of the one service file.  The    *)
(* variable build says which revision is running:                          *)
(*   "part_000"  src/unnamed/part_000   OAuth, signed JWT on success       *)
(*   "part_001"  src/unnamed/part_001   OAuth, redirects to /auth?error=   *)
(*   "index_b"   src/index.js:164-457   OAuth, inline error pages          *)
(*   "index_a"   src/index.js:1-162     ledger only, read-then-write add   *)
(*   "part_003"  src/unnamed/part_003   ledger only, read-then-write add   *)
(*                                                                         *)
(* A JavaScript string is modelled as the sequence of its pieces, so that  *)
(* startsWith is the prefix relation and encodeURIComponent rewrites the   *)
(* reserved pieces.  undefined is the one-piece sequence Undefined.        *)
(***************************************************************************)
EXTENDS Integers, Sequences, FiniteSets, TLC

VARIABLES
    build,      \* the revision of the service that is running
    cookie,     \* the browser's oauth_state cookie (Undefined when not set)
    issued,     \* the state values crypto.randomBytes has produced so far
    authResp,   \* the last response of GET /auth
    cb,         \* the /oauth/callback invocation in flight, or the last one
    prev,       \* what the browser submitted in the invocation before cb
    ncb,        \* number of /oauth/callback invocations received
    store,      \* the Token collection: userId -> document or NoDoc
    reqs,       \* the ledger/gate requests, one per slot
    gate,       \* the last request the API-key middleware has seen
    probe,      \* two balances handed to the league classifier, and its answers
    inbox       \* the provider's answer that has arrived and awaits the event loop

oauthVars  == <<cookie, issued, authResp, cb, prev, ncb>>
ledgerVars == <<store, reqs>>
vars       == <<build, cookie, issued, authResp, cb, prev, ncb, store, reqs, gate, probe,
               inbox>>

---------------------------------------------------------------------------
(* Bounds of the model *)

MaxStates    == 2     \* GET /auth calls (each draws a fresh state)
MaxCallbacks == 2     \* /oauth/callback invocations of the browser
MaxReqs      == 3     \* concurrent ledger requests
MaxProbe     == 60    \* the classifier is probed with every balance up to this

---------------------------------------------------------------------------
(* Strings *)

Undefined == <<"<undefined>">>
Empty     == <<>>

\* JavaScript truthiness of a string-or-undefined value: if (v) ...
Truthy(v) == v # Undefined /\ v # Empty

\* String.prototype.startsWith
StartsWith(s, p) == Len(s) >= Len(p) /\ SubSeq(s, 1, Len(p)) = p

\* The pieces encodeURIComponent escapes (the reserved characters the model uses)
EscapeOf(c) ==
    CASE c = " " -> "%20"
      [] c = "&" -> "%26"
      [] c = "=" -> "%3D"
      [] OTHER   -> c

\* encodeURIComponent(v): undefined is first converted to the string "undefined"
EncodeURIComponent(v) ==
    IF v = Undefined THEN <<"undefined">>
    ELSE [i \in 1..Len(v) |-> EscapeOf(v[i])]

---------------------------------------------------------------------------
(* Builds *)

OAuthBuilds  == {"part_000", "part_001", "index_b"}
LedgerBuilds == {"part_000", "part_001", "index_b", "index_a", "part_003"}
Builds       == LedgerBuilds


---------------------------------------------------------------------------
(* Values the requests and the provider's answers are drawn from *)

\* oauth_state values: 16 random bytes in hex, here one name per draw
StateValues == {<<"st", ToString(i)>> : i \in 1..MaxStates}

\* a state value no GET /auth has produced
ForgedState == <<"forged">>

\* the `state` query parameter of a callback: absent, empty, forged, or one
\* that GET /auth has produced (a value not yet drawn cannot be guessed)
ReturnedStates(known) == {Undefined, Empty, ForgedState} \cup known

\* the `code` query parameter of a callback
Codes == {<<"code1">>, <<"code2">>}

\* the `error` query parameter of a callback
ErrorParams == {Undefined, Empty, <<"access_denied", "&", "x">>}

\* the `error_description` query parameter (as express has decoded it)
ErrorDescriptions == {Undefined, <<"user", " ", "declined">>, <<"100", "%">>}

\* how one outbound fetch and the reading of its body can end
FetchOutcomes == {"neterr", "non2xx", "non2xx_bodyfail", "unparsable", "ok"}

\* HTTP status of a non-2xx answer of the provider
ProviderErrorStatuses == {400, 503}

\* JSON bodies of the token endpoint: null, an object without access_token,
\* an object with one
TokenBodies == { [isNull |-> TRUE,  access_token |-> Undefined],
                 [isNull |-> FALSE, access_token |-> Undefined],
                 [isNull |-> FALSE, access_token |-> <<"at1">>] }

\* JSON bodies of the userinfo endpoint: null, an object without sub, with sub
UserInfoBodies == { [isNull |-> TRUE,  sub |-> Undefined],
                    [isNull |-> FALSE, sub |-> Undefined],
                    [isNull |-> FALSE, sub |-> <<"U1">>] }

NoTokenData == [isNull |-> TRUE, access_token |-> Undefined]

---------------------------------------------------------------------------
(* Responses *)

\* kind: "redirect" | "send" | "json" | "none"; location: where a redirect
\* goes; error: the error code or text the response carries; clearCookie:
\* whether res.clearCookie('oauth_state') was called; subject: the identifier
\* (or the sub claim of the credential) a success redirect carries.
Response(kind, status, location, error, clearCookie, subject) ==
    [kind |-> kind, status |-> status, location |-> location, error |-> error,
     clearCookie |-> clearCookie, subject |-> subject]

NoResponse == Response("none", 0, "none", Undefined, FALSE, Undefined)

\* decodeURIComponent throws URIError on a "%" that starts no escape
DecodeThrows(v) == \E i \in 1..Len(v) : v[i] = "%"

\* ErrorParamResponse without encodeURIComponent
ErrorParamResponseRaw(b, error) ==
    CASE b = "part_001" -> Response("redirect", 302, "/auth", error, FALSE, Undefined)
      [] b = "part_000" -> Response("redirect", 302, "frontend", error, FALSE, Undefined)
      [] OTHER          -> Response("send", 400, "none", error, FALSE, Undefined)

\* The error answer of the callback for a provider-reported `error` parameter
ErrorParamResponse(b, error) ==
    CASE b = "part_001" ->
           Response("redirect", 302, "/auth", EncodeURIComponent(error), FALSE, Undefined)
      [] b = "part_000" ->
           Response("redirect", 302, "frontend", EncodeURIComponent(error), FALSE, Undefined)
      [] OTHER ->
           Response("send", 400, "none", error, FALSE, Undefined)

\* The error answer of the callback for a failed step; code is the error code
\* of the redirecting builds, status and text what index.js sends inline
ErrorResponse(b, code, status, text) ==
    CASE b = "part_001" -> Response("redirect", 302, "/auth", <<code>>, FALSE, Undefined)
      [] b = "part_000" -> Response("redirect", 302, "frontend", <<code>>, FALSE, Undefined)
      [] OTHER          -> Response("send", status, "none", <<text>>, FALSE, Undefined)

\* The success answer: the state cookie is cleared and the browser is sent to
\* the dashboard with ?userId=<sub>, or ?token=<JWT with claim sub> in part_000
SuccessResponse(b, userInfo) ==
    Response("redirect", 302, "dashboard", Undefined, TRUE, userInfo.sub)

\* StateRejected without the `!returnedState` test: an absent state equals an
\* absent cookie
StateRejectedNoPresenceTest(returnedState, storedState) ==
    returnedState # storedState

\* StateRejected without the comparison with the cookie
StateRejectedNoComparison(returnedState, storedState) ==
    ~Truthy(returnedState)

\* validate(returnedState, cookieState): the guard of the state check
StateRejected(returnedState, storedState) ==
    ~Truthy(returnedState) \/ returnedState # storedState

\* Does the guard `if (error)` take the provider-error branch
ErrorBranch(error) == Truthy(error)

---------------------------------------------------------------------------
(* The API-key middleware and the router *)

ApiKey == <<"KEY">>

HealthPath   == <<"/health">>
AuthPath     == <<"/auth">>
CallbackPath == <<"/oauth", "/", "callback">>
TokensPath   == <<"/tokens">>
AddPath      == <<"/tokens", "/add">>
RegisterPath == <<"/tokens", "/register">>

\* request paths of the model: the routes, and paths around the exemptions
Paths == { HealthPath, AuthPath, CallbackPath, TokensPath, AddPath, RegisterPath,
           <<"/health", "z">>, <<"/auth", "x">>, <<"/oauth">>, <<"/oauth", "/", "x">>,
           <<"/other">> }

\* values of the Authorization header (Undefined: no header)
AuthHeaders == { Undefined, Empty, <<"Bearer", " ">> \o ApiKey, ApiKey,
                 <<"Bearer", " ", "WRONG">>, <<"bearer", " ">> \o ApiKey }

Methods == {"GET", "POST"}

\* The paths the middleware lets through without looking at the header
GateSkips(b, path) ==
    IF b \in OAuthBuilds
    THEN \/ path = HealthPath
         \/ StartsWith(path, <<"/auth">>)
         \/ StartsWith(path, <<"/oauth", "/">>)
    ELSE path = HealthPath

\* The middleware: "next" or "reject" (401 {error: 'Unauthorized'})
ApiKeyGate(b, path, auth) ==
    IF GateSkips(b, path) THEN "next"
    ELSE LET header == IF Truthy(auth) THEN auth ELSE Empty
         IN  IF header # <<"Bearer", " ">> \o ApiKey THEN "reject" ELSE "next"

\* express routing: the handler registered for the method and path
Route(b, method, path) ==
    CASE method = "GET"  /\ path = HealthPath -> "health"
      [] method = "GET"  /\ path = AuthPath /\ b \in OAuthBuilds -> "auth"
      [] method = "GET"  /\ path = CallbackPath /\ b \in OAuthBuilds -> "callback"
      [] method = "GET"  /\ path = TokensPath -> "tokens"
      [] method = "POST" /\ path = AddPath -> "add"
      [] method = "POST" /\ path = RegisterPath /\ b \in OAuthBuilds -> "register"
      [] OTHER -> "notfound"

\* What the middleware and the router did with the last request
GateRecord(b, method, path, auth) ==
    [method |-> method, path |-> path, auth |-> auth,
     verdict |-> ApiKeyGate(b, path, auth),
     route |-> IF ApiKeyGate(b, path, auth) = "next" THEN Route(b, method, path)
               ELSE "none"]

NoGateRecord ==
    [method |-> "none", path |-> Empty, auth |-> Undefined, verdict |-> "none",
     route |-> "none"]

---------------------------------------------------------------------------
(* The league classifier *)

\* calculateLeague with the comparison of its second branch turned round
calculateLeagueReversedTest(tokenCount) ==
    IF tokenCount >= 50 THEN "Diamond"
    ELSE IF tokenCount <= 30 THEN "Sapphire"
    ELSE IF tokenCount >= 20 THEN "Gold"
    ELSE IF tokenCount >= 10 THEN "Silver"
    ELSE "Bronze"

\* part_000, part_001, index.js:205
calculateLeague(tokenCount) ==
    IF tokenCount >= 50 THEN "Diamond"
    ELSE IF tokenCount >= 30 THEN "Sapphire"
    ELSE IF tokenCount >= 20 THEN "Gold"
    ELSE IF tokenCount >= 10 THEN "Silver"
    ELSE "Bronze"

\* determineLeague with > in place of >=
determineLeagueStrict(tokenCount) ==
    IF tokenCount > 2000 THEN "Diamond"
    ELSE IF tokenCount > 1000 THEN "Obsidian"
    ELSE IF tokenCount > 500 THEN "Ruby"
    ELSE IF tokenCount > 200 THEN "Emerald"
    ELSE IF tokenCount > 100 THEN "Sapphire"
    ELSE IF tokenCount > 50 THEN "Platinum"
    ELSE IF tokenCount > 20 THEN "Gold"
    ELSE IF tokenCount > 10 THEN "Silver"
    ELSE "Bronze"

\* index.js:70, part_003
determineLeague(tokenCount) ==
    IF tokenCount >= 2000 THEN "Diamond"
    ELSE IF tokenCount >= 1000 THEN "Obsidian"
    ELSE IF tokenCount >= 500 THEN "Ruby"
    ELSE IF tokenCount >= 200 THEN "Emerald"
    ELSE IF tokenCount >= 100 THEN "Sapphire"
    ELSE IF tokenCount >= 50 THEN "Platinum"
    ELSE IF tokenCount >= 20 THEN "Gold"
    ELSE IF tokenCount >= 10 THEN "Silver"
    ELSE "Bronze"

\* The classifier of a build
Classify(b, tokenCount) ==
    IF b \in OAuthBuilds THEN calculateLeague(tokenCount)
    ELSE determineLeague(tokenCount)

\* The thresholds the two functions test, as the ascending table of
\* (minimum balance, label) pairs; the label below the first threshold is the
\* fallback of the last `return`
calculateLeagueTable ==
    << [min |-> 10, label |-> "Silver"],   [min |-> 20, label |-> "Gold"],
       [min |-> 30, label |-> "Sapphire"], [min |-> 50, label |-> "Diamond"] >>

determineLeagueTable ==
    << [min |-> 10,   label |-> "Silver"],   [min |-> 20,   label |-> "Gold"],
       [min |-> 50,   label |-> "Platinum"], [min |-> 100,  label |-> "Sapphire"],
       [min |-> 200,  label |-> "Emerald"],  [min |-> 500,  label |-> "Ruby"],
       [min |-> 1000, label |-> "Obsidian"], [min |-> 2000, label |-> "Diamond"] >>

LowestLeague == "Bronze"

\* The threshold table of a build's classifier
ThresholdTable(b) ==
    IF b \in OAuthBuilds THEN calculateLeagueTable ELSE determineLeagueTable

\* The balances the classifier is probed with: a run from below zero, and the
\* balances around every threshold of either table
ProbeBalances ==
    (-2..MaxProbe)
      \cup UNION { {determineLeagueTable[i].min - 1, determineLeagueTable[i].min,
                    determineLeagueTable[i].min + 1} : i \in DOMAIN determineLeagueTable }

NoProbe == [pc |-> "none", b1 |-> 0, b2 |-> 0, t1 |-> "none", t2 |-> "none"]

\* The classifier is applied to the two balances of the probe
ClassifyProbe ==
    /\ probe.pc = "input"
    /\ probe' = [probe EXCEPT !.pc = "classified",
                              !.t1 = Classify(build, probe.b1),
                              !.t2 = Classify(build, probe.b2)]
    /\ UNCHANGED <<build, cookie, issued, authResp, cb, prev, ncb, store, reqs, gate, inbox>>

---------------------------------------------------------------------------
(* The Token collection and the ledger routes *)

Slots == 1..MaxReqs

\* userId values of a request: undefined, '', and a user
Users   == { <<"U1">> }
UserIds == {Undefined, Empty} \cup Users

\* `amount` of a request body: a JSON number, or something that is no number
Amounts      == {-1, 0, 1, 12, 40}
BodyAmounts  == {[isNumber |-> TRUE, value |-> a] : a \in Amounts}
                  \cup {[isNumber |-> FALSE, value |-> 0]}

\* A document of the collection, and the mongoose document a handler holds
\* (isNull: findOne found nothing)
Doc(userId, tokens, league, isRegistered) ==
    [isNull |-> FALSE, userId |-> userId, tokens |-> tokens, league |-> league,
     isRegistered |-> isRegistered]

NullDoc == [isNull |-> TRUE, userId |-> Undefined, tokens |-> 0, league |-> "Bronze",
            isRegistered |-> FALSE]

\* The schema defaults: tokens 0, league 'Bronze', isRegistered false
DefaultDoc(userId) == Doc(userId, 0, "Bronze", FALSE)

DocsOf(coll, userId) == {d \in coll : d.userId = userId}

\* Token.findOne({userId})
FindOneResult(coll, userId) ==
    IF DocsOf(coll, userId) = {} THEN NullDoc
    ELSE CHOOSE d \in DocsOf(coll, userId) : TRUE

\* InsertAllowed of a collection without the unique index
InsertAllowedNoIndex(coll, userId) == TRUE

\* The unique index on userId: an insert of a second document fails (E11000)
InsertAllowed(coll, userId) == DocsOf(coll, userId) = {}

\* The collection after document d has replaced the document(s) of its user
Replace(coll, d) == (coll \ DocsOf(coll, d.userId)) \cup {d}

\* SaveResult of a save() that writes every path of the loaded document
SaveResultWholeDocument(coll, doc, modified) ==
    IF FindOneResult(coll, doc.userId).isNull \/ modified = {} THEN coll
    ELSE Replace(coll, doc)

\* record.save() of a loaded document: $set of the modified paths only
SaveResult(coll, doc, modified) ==
    LET cur == FindOneResult(coll, doc.userId)
        new == [cur EXCEPT
                  !.tokens       = IF "tokens" \in modified THEN doc.tokens ELSE @,
                  !.league       = IF "league" \in modified THEN doc.league ELSE @,
                  !.isRegistered = IF "isRegistered" \in modified
                                   THEN doc.isRegistered ELSE @]
    IN  IF cur.isNull \/ modified = {} THEN coll ELSE Replace(coll, new)

\* IncResult of an update that sets tokens to the amount instead of adding it
IncResultSetsAmount(coll, userId, amount) ==
    [(IF FindOneResult(coll, userId).isNull THEN DefaultDoc(userId)
      ELSE FindOneResult(coll, userId)) EXCEPT !.tokens = amount]

\* findOneAndUpdate({userId}, {$inc: {tokens: amount}}, {new, upsert}):
\* one atomic operation of the store; returns the document after the update
IncResult(coll, userId, amount) ==
    LET cur == FindOneResult(coll, userId)
    IN  IF cur.isNull THEN [DefaultDoc(userId) EXCEPT !.tokens = amount]
        ELSE [cur EXCEPT !.tokens = cur.tokens + amount]

\* RegisterResult of an update that replaces the document instead of setting
\* the one path
RegisterResultReplaces(coll, userId) ==
    [DefaultDoc(userId) EXCEPT !.isRegistered = TRUE]

\* findOneAndUpdate({userId}, {isRegistered: true}, {new, upsert, setDefaultsOnInsert})
RegisterResult(coll, userId) ==
    LET cur == FindOneResult(coll, userId)
    IN  IF cur.isNull THEN [DefaultDoc(userId) EXCEPT !.isRegistered = TRUE]
        ELSE [cur EXCEPT !.isRegistered = TRUE]

\* Does POST /tokens/add read the record and write it back (findOne, save)
\* instead of one findOneAndUpdate
ReadThenWrite(b) == b \in {"index_a", "part_003"}

\* Does GET /tokens recompute the league of an existing record
RecomputesOnRead(b) == b \in OAuthBuilds

\* The response of a ledger route (status 0: none yet)
LedgerResponse(status, error, doc) ==
    [status |-> status, error |-> error, userId |-> doc.userId,
     tokens |-> doc.tokens, league |-> doc.league, isRegistered |-> doc.isRegistered]

\* One request.  pc: "idle", "find" / "create" / "update" / "save" (the store
\* operation the handler awaits), "done", "hung" (the handler's promise was
\* rejected: no response).  ops counts the store operations it has made.
\* isNumber is typeof amount === 'number' of the body of POST /tokens/add;
\* prior is the balance POST /tokens/add found when it reached the record (0
\* when there was none); concurrent says whether another request was awaiting
\* the store at some moment while this one was; failed says that a store
\* operation of the request was rejected.
Request(pc, route, userId, amount, doc, modified, ops, resp) ==
    [pc |-> pc, route |-> route, userId |-> userId, amount |-> amount, doc |-> doc,
     modified |-> modified, ops |-> ops, resp |-> resp, isNumber |-> FALSE,
     prior |-> 0, concurrent |-> FALSE, failed |-> FALSE]

NoRequest ==
    Request("idle", "none", Undefined, 0, NullDoc, {}, 0,
            LedgerResponse(0, Undefined, NullDoc))

\* The request answers with status and the fields of doc
Answer(q, status, error, doc) ==
    [q EXCEPT !.pc = "done", !.resp = LedgerResponse(status, error, doc)]


\* The routes without the test of userId
BeginRouteNoUserIdCheck(b, route, userId, amount) ==
    LET q == Request("idle", route, userId, 0, NullDoc, {}, 0,
                     LedgerResponse(0, Undefined, NullDoc))
    IN  CASE route = "health"   -> Answer(q, 200, Undefined, NullDoc)
          [] route = "tokens"   -> [q EXCEPT !.pc = "find"]
          [] route = "add"      ->
               IF ~amount.isNumber
               THEN Answer([q EXCEPT !.isNumber = amount.isNumber],
                           400, <<"Missing or invalid fields">>, NullDoc)
               ELSE [q EXCEPT !.pc = IF ReadThenWrite(b) THEN "find" ELSE "update",
                              !.amount = amount.value, !.isNumber = TRUE]
          [] route = "register" -> [q EXCEPT !.pc = "update"]
          [] OTHER              -> Answer(q, 404, <<"Not Found">>, NullDoc)

\* The synchronous part of a ledger route: the input check and the first
\* store operation it starts
BeginRoute(b, route, userId, amount) ==
    LET q == Request("idle", route, userId, 0, NullDoc, {}, 0,
                     LedgerResponse(0, Undefined, NullDoc))
    IN  CASE route = "health"   -> Answer(q, 200, Undefined, NullDoc)
          [] route = "tokens"   ->
               IF ~Truthy(userId) THEN Answer(q, 400, <<"Missing userId">>, NullDoc)
               ELSE [q EXCEPT !.pc = "find"]
          [] route = "add"      ->
               IF ~Truthy(userId) \/ ~amount.isNumber
               THEN Answer([q EXCEPT !.isNumber = amount.isNumber],
                           400, <<"Missing or invalid fields">>, NullDoc)
               ELSE [q EXCEPT !.pc = IF ReadThenWrite(b) THEN "find" ELSE "update",
                              !.amount = amount.value, !.isNumber = TRUE]
          [] route = "register" ->
               IF ~Truthy(userId) THEN Answer(q, 400, <<"Missing userId">>, NullDoc)
               ELSE [q EXCEPT !.pc = "update"]
          [] OTHER              -> Answer(q, 404, <<"Not Found">>, NullDoc)

\* The request is awaiting a store operation
InFlight(q) == q.pc \in {"find", "create", "update", "save"}

\* The requests after request r has started as q: r and the requests that
\* await the store at that moment run concurrently
Started(all, r, q) ==
    [s \in DOMAIN all |->
       IF s = r
       THEN [q EXCEPT !.concurrent = InFlight(q) /\ \E o \in DOMAIN all : InFlight(all[o])]
       ELSE IF InFlight(q) /\ InFlight(all[s]) THEN [all[s] EXCEPT !.concurrent = TRUE]
       ELSE all[s]]

\* A request arrives: the API-key middleware, the router, and the handler up
\* to its first await.  (GET /auth and GET /oauth/callback are Auth and
\* CallbackBegin.)
Receive(r, method, path, auth, userId, amount) ==
    /\ reqs[r].pc = "idle"
    /\ LET g == GateRecord(build, method, path, auth)
       IN  /\ g.route \notin {"auth", "callback"}
           /\ gate' = g
           /\ reqs' = Started(reqs, r,
                         IF g.verdict = "reject"
                         THEN Answer(Request("idle", "none", userId, 0, NullDoc, {}, 0,
                                             LedgerResponse(0, Undefined, NullDoc)),
                                     401, <<"Unauthorized">>, NullDoc)
                         ELSE BeginRoute(build, g.route, userId, amount))
    /\ UNCHANGED <<build, probe, inbox, oauthVars, store>>

\* Award with the league computed before the amount is added
AwardLeagueOfPriorBalance(b, doc, amount) ==
    [doc EXCEPT !.isRegistered = TRUE,
                !.tokens = doc.tokens + amount,
                !.league = Classify(b, doc.tokens)]

\* The changes POST /tokens/add makes to the loaded record before save():
\* registered on first award, tokens += amount, league recomputed
Award(b, doc, amount) ==
    [doc EXCEPT !.isRegistered = TRUE,
                !.tokens = doc.tokens + amount,
                !.league = Classify(b, doc.tokens + amount)]

\* The paths of `after` that differ from `before` (what save() will $set)
ModifiedPaths(before, after) ==
    {f \in {"tokens", "league", "isRegistered"} : before[f] # after[f]}

\* After findOne / create of the read-then-write POST /tokens/add
AwardAndSave(b, q, doc) ==
    [q EXCEPT !.pc = "save", !.doc = Award(b, doc, q.amount),
              !.modified = ModifiedPaths(doc, Award(b, doc, q.amount)),
              !.ops = q.ops + 1, !.prior = doc.tokens]

\* After the record is in hand: recompute the league and save it if it changed
RecomputeLeague(b, q, doc, status) ==
    IF Classify(b, doc.tokens) # doc.league
    THEN [q EXCEPT !.pc = "save", !.doc = [doc EXCEPT !.league = Classify(b, doc.tokens)],
                   !.modified = {"league"}, !.ops = q.ops + 1]
    ELSE Answer([q EXCEPT !.doc = doc, !.ops = q.ops + 1], status, Undefined, doc)

\* The awaited store operation rejects.  No ledger handler has a try/catch
\* and the application installs no error middleware: the async handler's
\* promise is rejected and the request gets no response.
Rejected(q) == [q EXCEPT !.pc = "hung", !.ops = q.ops + 1, !.failed = TRUE]

\* The store is unavailable or answers with an error: the operation request r
\* awaits is rejected, and the store is as it was
StoreFails(r) ==
    /\ InFlight(reqs[r])
    /\ reqs' = [reqs EXCEPT ![r] = Rejected(reqs[r])]
    /\ UNCHANGED <<build, probe, inbox, oauthVars, store, gate>>

\* await Token.findOne({userId}) completes
FindOne(r) ==
    /\ reqs[r].pc = "find"
    /\ LET q   == reqs[r]
           doc == FindOneResult(store, q.userId)
       IN  reqs' = [reqs EXCEPT ![r] =
                      IF doc.isNull THEN [q EXCEPT !.pc = "create", !.ops = q.ops + 1]
                      ELSE IF q.route = "add" THEN AwardAndSave(build, q, doc)
                      ELSE IF RecomputesOnRead(build)
                           THEN RecomputeLeague(build, q, doc, 200)
                      ELSE Answer([q EXCEPT !.doc = doc, !.ops = q.ops + 1],
                                  200, Undefined, doc)]
    /\ UNCHANGED <<build, probe, inbox, oauthVars, store, gate>>

\* await Token.create({userId, tokens: 0, league: 'Bronze', isRegistered: false})
\* completes; the unique index rejects a second record of the user, and the
\* rejection is caught nowhere
Create(r) ==
    /\ reqs[r].pc = "create"
    /\ LET q   == reqs[r]
           doc == DefaultDoc(q.userId)
       IN  IF InsertAllowed(store, q.userId)
           THEN /\ store' = store \cup {doc}
                /\ reqs' = [reqs EXCEPT ![r] =
                              IF q.route = "add" THEN AwardAndSave(build, q, doc)
                              ELSE Answer([q EXCEPT !.doc = doc, !.ops = q.ops + 1],
                                          200, Undefined, doc)]
           ELSE /\ store' = store
                /\ reqs' = [reqs EXCEPT ![r] = Rejected(q)]
    /\ UNCHANGED <<build, probe, inbox, oauthVars, gate>>

\* await Token.findOneAndUpdate(...) completes: the $inc of POST /tokens/add
\* or the flag of POST /tokens/register
FindOneAndUpdate(r) ==
    /\ reqs[r].pc = "update"
    /\ LET q   == reqs[r]
           doc == IF q.route = "add" THEN IncResult(store, q.userId, q.amount)
                  ELSE RegisterResult(store, q.userId)
       IN  /\ store' = Replace(store, doc)
           /\ reqs' = [reqs EXCEPT ![r] =
                         IF q.route = "add"
                         THEN RecomputeLeague(build,
                                [q EXCEPT !.prior = FindOneResult(store, q.userId).tokens],
                                doc, 200)
                         ELSE Answer([q EXCEPT !.doc = doc, !.ops = q.ops + 1],
                                     200, Undefined, doc)]
    /\ UNCHANGED <<build, probe, inbox, oauthVars, gate>>

\* await record.save() completes
Save(r) ==
    /\ reqs[r].pc = "save"
    /\ LET q == reqs[r]
       IN  /\ store' = SaveResult(store, q.doc, q.modified)
           /\ reqs' = [reqs EXCEPT ![r] =
                         Answer([q EXCEPT !.ops = q.ops + 1], 200, Undefined, q.doc)]
    /\ UNCHANGED <<build, probe, inbox, oauthVars, gate>>

---------------------------------------------------------------------------
(* GET /auth and GET /oauth/callback *)

\* One callback invocation.  pc: "idle" (none yet), "token" (awaiting the
\* token endpoint), "token2" (awaiting the second token request of
\* index.js), "userinfo" (awaiting the userinfo endpoint), "done" (response
\* sent), "hung" (the handler threw outside its try blocks: the promise is
\* rejected and no response is ever sent).  tokenCalls / userCalls count the
\* fetches made.  trace lists what happened, in order: the handler's steps
\* ("provider_error", "state_rejected", "state_ok", "token_call",
\* "userinfo_call", "respond_error", "respond_success", "threw") and what the
\* provider did ("token_ok" / "token_failed", "userinfo_ok" /
\* "userinfo_failed": a 2xx answer with a JSON body, or anything else).
Invocation(pc, code, state, error, stored, tokenCalls, userCalls, trace, tokenData, resp) ==
    [pc |-> pc, code |-> code, state |-> state, error |-> error, stored |-> stored,
     tokenCalls |-> tokenCalls, userCalls |-> userCalls, trace |-> trace,
     tokenData |-> tokenData, resp |-> resp]

NoInvocation ==
    Invocation("idle", Undefined, Undefined, Undefined, Undefined, 0, 0, <<>>,
               NoTokenData, NoResponse)

\* What the browser does with the response: clearCookie expires the cookie
CookieAfter(jar, resp) == IF resp.clearCookie THEN Undefined ELSE jar

\* The handler sends resp and returns
Finish(inv, steps, resp) ==
    [inv EXCEPT !.pc = "done", !.trace = inv.trace \o steps, !.resp = resp]

\* The handler throws where nothing catches it
Throw(inv, steps) ==
    [inv EXCEPT !.pc = "hung", !.trace = (inv.trace \o steps) \o <<"threw">>]

\* GET /auth that leaves a cookie it finds in place
AuthKeepsFirstCookie(auth) ==
    /\ GateRecord(build, "GET", AuthPath, auth).route = "auth"
    /\ gate' = GateRecord(build, "GET", AuthPath, auth)
    /\ \E s \in StateValues \ issued :
         /\ issued'   = issued \cup {s}
         /\ cookie'   = IF cookie = Undefined THEN s ELSE cookie
         /\ authResp' = [setCookie |-> s, urlState |-> s, location |-> "provider"]
    /\ UNCHANGED <<build, probe, inbox, cb, prev, ncb, store, reqs>>

\* GET /auth with an authorization URL that lacks the state parameter
AuthUrlWithoutState(auth) ==
    /\ GateRecord(build, "GET", AuthPath, auth).route = "auth"
    /\ gate' = GateRecord(build, "GET", AuthPath, auth)
    /\ \E s \in StateValues \ issued :
         /\ issued'   = issued \cup {s}
         /\ cookie'   = s
         /\ authResp' = [setCookie |-> s, urlState |-> Undefined, location |-> "provider"]
    /\ UNCHANGED <<build, probe, inbox, cb, prev, ncb, store, reqs>>

\* GET /auth: draw a state, bind it to the cookie, redirect to the provider
\* with the same state in the authorization URL
Auth(auth) ==
    /\ GateRecord(build, "GET", AuthPath, auth).route = "auth"
    /\ gate' = GateRecord(build, "GET", AuthPath, auth)
    /\ \E s \in StateValues \ issued :
         /\ issued'   = issued \cup {s}
         /\ cookie'   = s
         /\ authResp' = [setCookie |-> s, urlState |-> s, location |-> "provider"]
    /\ UNCHANGED <<build, probe, inbox, cb, prev, ncb, store, reqs>>

\* GET /oauth/callback up to its first await: the provider-error check, the
\* state check, and the POST to the token endpoint
CallbackBegin(auth, code, returnedState, error, description) ==
    /\ GateRecord(build, "GET", CallbackPath, auth).route = "callback"
    /\ gate' = GateRecord(build, "GET", CallbackPath, auth)
    /\ cb.pc \in {"idle", "done", "hung"}
    /\ ncb < MaxCallbacks
    /\ ncb' = ncb + 1
    /\ prev' = [answered |-> cb.pc = "done", code |-> cb.code, state |-> cb.state,
                error |-> cb.error]
    /\ LET inv == Invocation("start", code, returnedState, error, cookie,
                             0, 0, <<>>, NoTokenData, NoResponse)
       IN  IF ErrorBranch(error)
           THEN IF build = "index_b"
                   /\ DecodeThrows(IF Truthy(description) THEN description
                                   ELSE <<"No description">>)
                THEN cb' = Throw(inv, <<"provider_error">>)
                ELSE cb' = Finish(inv, <<"provider_error", "respond_error">>,
                                  ErrorParamResponse(build, error))
           ELSE IF StateRejected(returnedState, cookie)
           THEN cb' = Finish(inv, <<"state_rejected", "respond_error">>,
                             ErrorResponse(build, "state_mismatch", 400,
                                           "Security check failed (state mismatch)"))
           ELSE cb' = [inv EXCEPT !.pc = "token", !.tokenCalls = 1,
                                  !.trace = <<"state_ok", "token_call">>]
    /\ cookie' = CookieAfter(cookie, cb'.resp)
    /\ UNCHANGED <<build, probe, inbox, issued, authResp, store, reqs>>

\* Does this build read the body of a non-2xx answer (await res.text())
\* before it answers; part_000 answers without reading it
ReadsErrorBody(b) == b # "part_000"

\* FetchBranch without the `if (!res.ok)` test
FetchBranchNoStatusTest(b, outcome) ==
    CASE outcome \in {"ok", "non2xx"} -> "ok"
      [] OTHER                        -> "caught"

\* Which branch a fetch outcome takes: "ok", "not_ok" (the !res.ok branch
\* returns) or "caught" (fetch, text() or json() threw into the catch)
FetchBranch(b, outcome) ==
    CASE outcome = "ok"              -> "ok"
      [] outcome = "non2xx"          -> "not_ok"
      [] outcome = "non2xx_bodyfail" -> IF ReadsErrorBody(b) THEN "caught" ELSE "not_ok"
      [] OTHER                       -> "caught"

\* The answer to a failed token exchange (branch is "not_ok" or "caught");
\* second: the failure is that of the second request of index.js
TokenFailureResponse(b, branch, status, second) ==
    IF branch = "not_ok"
    THEN ErrorResponse(b, "token_exchange_failed", status,
                       IF second THEN "Failed to exchange code for tokens."
                       ELSE "Failed to exchange code for tokens (see server logs).")
    ELSE ErrorResponse(b, "token_exchange_error", 500,
                       "Error during Roblox token exchange.")

\* The answer to a failed identity retrieval
UserinfoFailureResponse(b, branch) ==
    IF branch = "not_ok"
    THEN ErrorResponse(b, "userinfo_failed", 500, "Failed to fetch Roblox user info.")
    ELSE ErrorResponse(b, "userinfo_error", 500, "Error fetching Roblox user info.")

\* index.js:325-344 repeats the token request after the first has succeeded
RepeatsTokenRequest(b) == b = "index_b"

\* What the provider did, as the trace records it
ProviderEvent(endpoint, outcome) ==
    IF outcome = "ok" THEN <<endpoint \o "_ok">> ELSE <<endpoint \o "_failed">>

\* The step after a successful token exchange: the GET to the userinfo
\* endpoint.  Reading tokenData.access_token of a null body throws inside the
\* try block, before fetch is called.
BeginUserinfo(b, inv, body) ==
    IF body.isNull
    THEN Finish([inv EXCEPT !.tokenData = body], <<"respond_error">>,
                UserinfoFailureResponse(b, "caught"))
    ELSE [inv EXCEPT !.pc = "userinfo", !.tokenData = body,
                     !.userCalls = inv.userCalls + 1,
                     !.trace = Append(inv.trace, "userinfo_call")]

\* The handler after `await fetch(tokenUrl, ...)` has settled with outcome
AfterTokenFetch(b, old, outcome, status, body) ==
    LET branch == FetchBranch(b, outcome)
        inv    == [old EXCEPT !.trace = old.trace \o ProviderEvent("token", outcome)]
    IN  IF branch # "ok"
        THEN Finish(inv, <<"respond_error">>,
                    TokenFailureResponse(b, branch, status, old.pc = "token2"))
        ELSE IF RepeatsTokenRequest(b) /\ old.pc = "token"
        THEN [inv EXCEPT !.pc = "token2", !.tokenData = body,
                         !.tokenCalls = old.tokenCalls + 1,
                         !.trace = Append(inv.trace, "token_call")]
        ELSE BeginUserinfo(b, inv, body)

\* The token endpoint's answer arrives (or the request fails)
TokenAnswer(outcome, status, body) ==
    /\ cb.pc \in {"token", "token2"}
    /\ cb' = AfterTokenFetch(build, cb, outcome, status, body)
    /\ cookie' = CookieAfter(cookie, cb'.resp)
    /\ UNCHANGED <<build, probe, inbox, issued, authResp, prev, ncb, store, reqs, gate>>

\* The handler after `await fetch(userinfo, ...)` has settled with outcome
AfterUserinfoFetch(b, old, outcome, body) ==
    LET branch == FetchBranch(b, outcome)
        inv    == [old EXCEPT !.trace = old.trace \o ProviderEvent("userinfo", outcome)]
    IN  IF branch # "ok"
        THEN Finish(inv, <<"respond_error">>, UserinfoFailureResponse(b, branch))
        ELSE IF body.isNull
        THEN Throw(inv, <<>>)
        ELSE Finish(inv, <<"respond_success">>, SuccessResponse(b, body))

\* The userinfo step with a completed login registering the user in the ledger
UserinfoAnswerUpsertsRecord(outcome, body) ==
    /\ cb.pc = "userinfo"
    /\ cb' = AfterUserinfoFetch(build, cb, outcome, body)
    /\ cookie' = CookieAfter(cookie, cb'.resp)
    /\ store' = IF cb'.pc = "done" /\ cb'.resp.location = "dashboard"
                THEN Replace(store, RegisterResult(store, body.sub))
                ELSE store
    /\ UNCHANGED <<build, probe, inbox, issued, authResp, prev, ncb, reqs, gate>>

\* The userinfo endpoint's answer arrives (or the request fails).  A null
\* body makes userInfo.sub throw outside the try blocks.
UserinfoAnswer(outcome, body) ==
    /\ cb.pc = "userinfo"
    /\ cb' = AfterUserinfoFetch(build, cb, outcome, body)
    /\ cookie' = CookieAfter(cookie, cb'.resp)
    /\ UNCHANGED <<build, probe, inbox, issued, authResp, prev, ncb, store, reqs, gate>>

\* The outbound call and the event loop, step by step.  fetch() is called
\* without a timeout or an abort signal: its promise settles when the provider
\* answers or the connection fails, and not otherwise.
NoAnswer == [outcome |-> "none", status |-> 0, token |-> NoTokenData,
             userInfo |-> [isNull |-> TRUE, sub |-> Undefined]]

\* The provider answers the pending request (or the connection fails): the
\* promise of fetch settles
ProviderAnswers(outcome, status, token, userInfo) ==
    /\ cb.pc \in {"token", "token2", "userinfo"}
    /\ inbox.outcome = "none"
    /\ inbox' = [outcome |-> outcome, status |-> status, token |-> token,
                 userInfo |-> userInfo]
    /\ UNCHANGED <<build, probe, cookie, issued, authResp, cb, prev, ncb, store, reqs,
                   gate>>

\* The event loop resumes the handler that awaited the settled promise
Resume ==
    /\ inbox.outcome # "none"
    /\ cb' = IF cb.pc = "userinfo"
             THEN AfterUserinfoFetch(build, cb, inbox.outcome, inbox.userInfo)
             ELSE AfterTokenFetch(build, cb, inbox.outcome, inbox.status, inbox.token)
    /\ cookie' = CookieAfter(cookie, cb'.resp)
    /\ inbox' = NoAnswer
    /\ UNCHANGED <<build, probe, issued, authResp, prev, ncb, store, reqs, gate>>

---------------------------------------------------------------------------
(* Properties of the OAuth flow *)

Range(f) == {f[i] : i \in DOMAIN f}

RedirectBuilds == {"part_000", "part_001"}

\* decodeURIComponent on the pieces of the model
UnescapeOf(c) ==
    CASE c = "%20" -> " "
      [] c = "%26" -> "&"
      [] c = "%3D" -> "="
      [] OTHER     -> c

\* The value a page reads from `?error=<v>`: v up to the first raw "&", decoded
QueryValue(v) ==
    LET amps == {i \in 1..Len(v) : v[i] = "&"}
        cut  == IF amps = {} THEN Len(v)
                ELSE (CHOOSE i \in amps : \A j \in amps : i <= j) - 1
    IN  [i \in 1..cut |-> UnescapeOf(v[i])]

\* The invocation's state does not validate: the query value is absent, the
\* cookie is absent, or the two differ
StateMismatch(inv) ==
    inv.state = Undefined \/ inv.stored = Undefined \/ inv.state # inv.stored

\* The response is an error redirect that carries the error value e
ErrorRedirect(resp, e) ==
    /\ resp.kind = "redirect"
    /\ resp.location \in {"/auth", "frontend"}
    /\ resp.subject = Undefined
    /\ QueryValue(resp.error) = e

\* The response is the success redirect to the dashboard
SuccessRedirect(resp) == resp.kind = "redirect" /\ resp.location = "dashboard"

\* C1 as stated: a callback whose state is absent, whose cookie is absent, or
\* whose state differs from the cookie is answered with the state_mismatch
\* error and calls neither the token endpoint nor the userinfo endpoint.
C1_StateMismatchAlwaysReported ==
    (build \in RedirectBuilds /\ cb.pc # "idle" /\ StateMismatch(cb))
        => /\ cb.pc = "done"
           /\ ErrorRedirect(cb.resp, <<"state_mismatch">>)
           /\ cb.tokenCalls = 0
           /\ cb.userCalls = 0

\* C1 as amended: such a callback never calls the token endpoint or the
\* userinfo endpoint and never succeeds; part_000 and part_001 answer it with
\* an error redirect, whose code is state_mismatch unless the request carries
\* a non-empty `error` parameter, which is then the error reported; index.js
\* answers it with an inline 400 page (or not at all when decoding
\* error_description throws).
C1_StateReplayRejected ==
    (cb.pc # "idle" /\ StateMismatch(cb))
        => /\ cb.tokenCalls = 0
           /\ cb.userCalls = 0
           /\ cb.pc \in {"done", "hung"}
           /\ ~SuccessRedirect(cb.resp)
           /\ build \in RedirectBuilds
                => /\ cb.pc = "done"
                   /\ ErrorRedirect(cb.resp, IF Truthy(cb.error) THEN cb.error
                                             ELSE <<"state_mismatch">>)
           /\ (build = "index_b" /\ cb.pc = "done")
                => cb.resp.kind = "send" /\ cb.resp.status = 400

\* C1 witness: a callback that replays an earlier state against a newer cookie
\* has been answered with state_mismatch
C1_Witness ==
    /\ cb.pc = "done"
    /\ cb.state \in issued
    /\ cb.stored \in issued
    /\ cb.state # cb.stored
    /\ cb.error = Undefined
    /\ cb.resp.error = <<"state_mismatch">>

\* C2 as stated: every completed callback clears the oauth_state cookie.
C2_CookieClearedOnEveryCompletion ==
    (build \in RedirectBuilds /\ cb.pc = "done") => cb.resp.clearCookie

\* The browser has submitted the same callback a second time, after the first
\* was answered
Resubmission ==
    /\ prev.answered
    /\ cb.pc # "idle"
    /\ cb.code = prev.code
    /\ cb.state = prev.state
    /\ cb.error = prev.error

\* C3 as stated: the second submission of one callback fails state validation
\* and never reaches the code exchange, whatever the first one's outcome.
C3_SecondSubmissionRejected ==
    (build = "part_001" /\ Resubmission /\ cb.error = Undefined)
        => /\ cb.tokenCalls = 0
           /\ StateRejected(cb.state, cb.stored)
           /\ cb.pc = "done"
           /\ ErrorRedirect(cb.resp, <<"state_mismatch">>)

\* C4: within one callback the token request is made only after the state has
\* validated, the userinfo request only directly after a successful token
\* answer, the success redirect only directly after a successful userinfo
\* answer, and nothing is requested after a step has failed.  (The callback
\* makes no ledger operation at all.)
C4_StepsInOrder ==
    LET t == cb.trace
    IN  \A i \in DOMAIN t :
          /\ t[i] = "token_call"
               => /\ i > 1
                  /\ t[i - 1] \in {"state_ok", "token_ok"}
                  /\ Truthy(cb.state)
                  /\ cb.state = cb.stored
                  /\ ~Truthy(cb.error)
          /\ t[i] \in {"token_ok", "token_failed"} => i > 1 /\ t[i - 1] = "token_call"
          /\ t[i] = "userinfo_call" => i > 1 /\ t[i - 1] = "token_ok"
          /\ t[i] \in {"userinfo_ok", "userinfo_failed"}
               => i > 1 /\ t[i - 1] = "userinfo_call"
          /\ t[i] = "respond_success" => i > 1 /\ t[i - 1] = "userinfo_ok"
          /\ t[i] \in {"provider_error", "state_rejected", "token_failed",
                       "userinfo_failed"}
               => \A j \in DOMAIN t :
                     j > i => t[j] \notin {"token_call", "userinfo_call",
                                           "respond_success"}

\* C4 witness: a callback has gone through all the steps to the success redirect
C4_Witness ==
    /\ cb.pc = "done"
    /\ SuccessRedirect(cb.resp)
    /\ cb.tokenCalls >= 1
    /\ cb.userCalls = 1
    /\ cb.trace[Len(cb.trace)] = "respond_success"

\* C5: when the token endpoint's answer is a failure (non-2xx, network
\* failure, unparsable body), the callback has made no userinfo request and is
\* answered with something that is no success redirect and carries no subject.
C5_TokenFailureShortCircuits ==
    ("token_failed" \in Range(cb.trace))
        => /\ cb.userCalls = 0
           /\ cb.pc = "done"
           /\ ~SuccessRedirect(cb.resp)
           /\ cb.resp.subject = Undefined

\* C5 witness: the token endpoint has answered non-2xx and the callback is done
C5_Witness ==
    /\ cb.pc = "done"
    /\ cb.tokenCalls = 1
    /\ "token_failed" \in Range(cb.trace)
    /\ cb.resp.error \in {<<"token_exchange_failed">>,
                          <<"Failed to exchange code for tokens (see server logs).">>}

\* C7 as stated: every token exchange failure is answered by a redirect with
\* the code token_exchange_failed, every identity retrieval failure by a
\* redirect with userinfo_failed, and never by a raw 500.
C7_FailureCodes ==
    (build \in {"part_001", "index_b"} /\ cb.pc = "done")
        => /\ "token_failed" \in Range(cb.trace)
                => ErrorRedirect(cb.resp, <<"token_exchange_failed">>)
           /\ "userinfo_failed" \in Range(cb.trace)
                => ErrorRedirect(cb.resp, <<"userinfo_failed">>)
           /\ cb.resp.status # 500

\* C8 as stated: a callback that carries an `error` parameter is answered with
\* that error and calls neither provider endpoint, whatever code, state and
\* cookie are.
C8_ErrorParameterAlwaysWins ==
    (build \in RedirectBuilds /\ cb.pc # "idle" /\ cb.error # Undefined)
        => /\ cb.pc = "done"
           /\ ErrorRedirect(cb.resp, cb.error)
           /\ cb.tokenCalls = 0
           /\ cb.userCalls = 0

\* C8 as amended: a callback that carries a non-empty `error` parameter calls
\* neither provider endpoint and never succeeds, whatever code, state and
\* cookie are; part_000 and part_001 answer it with an error redirect from
\* which the receiving page reads back exactly that error.  (An empty
\* `error=` is not taken as an error: the flow goes on to the state check.)
C8_ProviderErrorReflected ==
    (cb.pc # "idle" /\ Truthy(cb.error))
        => /\ cb.tokenCalls = 0
           /\ cb.userCalls = 0
           /\ cb.pc \in {"done", "hung"}
           /\ ~SuccessRedirect(cb.resp)
           /\ build \in RedirectBuilds
                => cb.pc = "done" /\ ErrorRedirect(cb.resp, cb.error)

\* C8 witness: a callback with a provider error and a state that would have
\* validated has been answered with the error
C8_Witness ==
    /\ build \in RedirectBuilds
    /\ cb.pc = "done"
    /\ Truthy(cb.error)
    /\ Truthy(cb.state)
    /\ cb.state = cb.stored
    /\ cb.tokenCalls = 0
    /\ QueryValue(cb.resp.error) = cb.error

C21_ProviderResponsesUntrusted ==
    (build \in RedirectBuilds /\ SuccessRedirect(cb.resp))
        => /\ Truthy(cb.tokenData.access_token)
           /\ Truthy(cb.resp.subject)

\* C22 as stated: every /oauth/callback invocation is eventually answered,
\* also when a provider endpoint never answers.
C22_EveryCallbackAnswered ==
    \A n \in 1..MaxCallbacks :
        (build = "part_001" /\ ncb = n) ~> (ncb = n /\ cb.pc = "done")

---------------------------------------------------------------------------
(* Properties of the league classifier *)

\* The labels of a build's classifier, lowest first
TierOrder(b) ==
    <<LowestLeague>> \o [i \in DOMAIN ThresholdTable(b) |-> ThresholdTable(b)[i].label]

\* tierRank: the position of a label in the ascending table (0: no label of it)
tierRank(b, label) ==
    IF \E i \in DOMAIN TierOrder(b) : TierOrder(b)[i] = label
    THEN CHOOSE i \in DOMAIN TierOrder(b) : TierOrder(b)[i] = label
    ELSE 0

\* C17: for all non-negative balances b1 <= b2 the classifier's label of b1
\* ranks no higher in the ascending threshold table than its label of b2.
C17_ClassifierMonotone ==
    (probe.pc = "classified" /\ 0 <= probe.b1 /\ probe.b1 <= probe.b2)
        => /\ tierRank(build, probe.t1) >= 1
           /\ tierRank(build, probe.t1) <= tierRank(build, probe.t2)

\* C17 witness: two balances in different tiers have been classified
C17_Witness ==
    /\ probe.pc = "classified"
    /\ 0 <= probe.b1
    /\ probe.b1 < probe.b2
    /\ tierRank(build, probe.t1) < tierRank(build, probe.t2)

\* C18: a balance equal to a threshold t gets the label that t opens, the
\* balance t - 1 gets the next-lower label, and every balance below the first
\* threshold gets the lowest label, Bronze.
C18_ClassifierBoundary ==
    probe.pc = "classified"
        => LET table == ThresholdTable(build)
           IN  /\ \A i \in DOMAIN table :
                    /\ probe.b1 = table[i].min => probe.t1 = table[i].label
                    /\ probe.b1 = table[i].min - 1
                         => probe.t1 = TierOrder(build)[i]
               /\ probe.b1 < table[1].min => probe.t1 = "Bronze"

\* C18 witness: the highest threshold of the nine-tier table has been
\* classified, and the balance just below it
C18_Witness ==
    /\ probe.pc = "classified"
    /\ build \notin OAuthBuilds
    /\ probe.b1 = 2000
    /\ probe.b2 = 1999
    /\ probe.t1 = "Diamond"
    /\ probe.t2 = "Obsidian"

---------------------------------------------------------------------------
(* Properties of the ledger routes and of the API-key middleware *)

\* The completed POST /tokens/add {userId: U1, amount: 1} requests
DoneIncrements ==
    {r \in Slots : /\ reqs[r].pc = "done"
                   /\ reqs[r].route = "add"
                   /\ reqs[r].userId = <<"U1">>
                   /\ reqs[r].amount = 1
                   /\ reqs[r].resp.status = 200}

\* C6 as stated: when N >= 2 concurrent POST /tokens/add {U1, 1} against a
\* user without a record are all that has run, and all have completed, the
\* stored balance of U1 is N.
C6_NoLostIncrement ==
    (/\ build \in {"part_001", "index_a", "part_003"}
     /\ Cardinality(DoneIncrements) >= 2
     /\ \A r \in Slots : reqs[r].pc = "idle" \/ r \in DoneIncrements)
        => \E d \in store : d.userId = <<"U1">> /\ d.tokens = Cardinality(DoneIncrements)

\* The POST /tokens/add requests that carried a userId and a numeric amount
Increments ==
    {r \in Slots : /\ reqs[r].route = "add"
                   /\ Truthy(reqs[r].userId)
                   /\ reqs[r].isNumber}

\* C11: every POST /tokens/add with a userId and an integer amount k, negative
\* and zero included, is answered 200 with newTotal = priorBalance + k and
\* league = classify(priorBalance + k), where priorBalance is the balance the
\* request found in the record, 0 when it found no record.
C11_IncrementTierConsistency ==
    \A r \in Increments :
        reqs[r].pc = "done"
            => /\ reqs[r].resp.status = 200
               /\ reqs[r].resp.userId = reqs[r].userId
               /\ reqs[r].resp.tokens = reqs[r].prior + reqs[r].amount
               /\ reqs[r].resp.league = Classify(build, reqs[r].prior + reqs[r].amount)

\* C11 witness: a negative amount has been added to a positive balance
C11_Witness ==
    \E r \in Increments :
        /\ reqs[r].pc = "done"
        /\ reqs[r].prior >= 10
        /\ reqs[r].amount < 0
        /\ reqs[r].resp.tokens = reqs[r].prior + reqs[r].amount

\* C12 as stated: in every response of GET /tokens and of POST /tokens/add the
\* league is the classifier's label of the balance of the same response.
C12_ResponseTierNeverStale ==
    (build \in {"part_001", "part_003", "index_a"})
        => \A r \in Slots :
             (/\ reqs[r].pc = "done"
              /\ reqs[r].route \in {"tokens", "add"}
              /\ reqs[r].resp.status = 200)
                 => reqs[r].resp.league = Classify(build, reqs[r].resp.tokens)

\* No request for the user is awaiting the store
Quiescent(userId) ==
    \A r \in Slots : reqs[r].userId = userId => ~InFlight(reqs[r])

\* C13 as stated: once a GET /tokens or POST /tokens/add for a user has
\* completed and no request for that user is in flight, the stored record has
\* league = classify(tokens), whatever the interleaving was.
C13_StoredTierInvariant ==
    (build \in {"part_001", "part_003"})
        => \A u \in Users :
             (/\ Quiescent(u)
              /\ \E r \in Slots : /\ reqs[r].userId = u
                                   /\ reqs[r].pc = "done"
                                   /\ reqs[r].route \in {"tokens", "add"}
                                   /\ reqs[r].resp.status = 200)
                 => \A d \in DocsOf(store, u) : d.league = Classify(build, d.tokens)

\* The POST /tokens/add and POST /tokens/register requests received for the
\* user that passed the input check
Mutations(userId) ==
    {r \in Slots : /\ reqs[r].userId = userId
                   /\ reqs[r].pc # "idle"
                   /\ reqs[r].route \in {"add", "register"}
                   /\ reqs[r].resp.status # 400}

\* The GET /tokens requests received for the user
Reads(userId) ==
    {r \in Slots : reqs[r].userId = userId /\ reqs[r].route = "tokens"}

\* C14: as long as GET /tokens is all that has been called for a user who had
\* no record, every call is answered with the same record (tokens 0, league
\* Bronze, isRegistered false), and a call that ran alone is answered; and in
\* no interleaving of GET /tokens, POST /tokens/add and POST /tokens/register
\* does the store hold two records of one userId.
C14_IdempotentRead ==
    \A u \in Users :
        /\ Cardinality(DocsOf(store, u)) <= 1
        /\ Mutations(u) = {}
             => \A r \in Reads(u) :
                  /\ reqs[r].pc = "done"
                       => /\ reqs[r].resp.status = 200
                          /\ reqs[r].resp.userId = u
                          /\ reqs[r].resp.tokens = 0
                          /\ reqs[r].resp.league = "Bronze"
                          /\ reqs[r].resp.isRegistered = FALSE
                  /\ ~reqs[r].concurrent => reqs[r].pc # "hung"

\* C14 witness: two GET /tokens, one after the other, have been answered for a
\* user who had no record, and the store holds one record
C14_Witness ==
    \E u \in Users :
        /\ Mutations(u) = {}
        /\ Cardinality(DocsOf(store, u)) = 1
        /\ \E r1, r2 \in Reads(u) :
              /\ r1 < r2
              /\ reqs[r1].pc = "done" /\ reqs[r2].pc = "done"
              /\ ~reqs[r1].concurrent /\ ~reqs[r2].concurrent
              /\ reqs[r1].ops = 2 /\ reqs[r2].ops = 1
              /\ reqs[r1].resp = reqs[r2].resp

\* C15: once the stored isRegistered flag of a user is true, no step of any
\* GET /tokens, POST /tokens/add or POST /tokens/register request, in any
\* interleaving, leaves the user with a record whose flag is false or without
\* a record.
C15_RegistrationMonotone ==
    [][\A d \in store :
          d.isRegistered
            => /\ DocsOf(store', d.userId) # {}
               /\ \A e \in DocsOf(store', d.userId) : e.isRegistered]_vars

\* C15 witness: after POST /tokens/register, an add has written the record and
\* a GET /tokens has read it, and the stored flag is true
C15_Witness ==
    \E r1, r2, r3 \in Slots :
        /\ reqs[r1].route = "register" /\ reqs[r1].pc = "done"
        /\ reqs[r1].resp.status = 200
        /\ reqs[r2].route = "add" /\ reqs[r2].pc = "done" /\ reqs[r2].ops >= 2
        /\ reqs[r2].doc.isRegistered
        /\ reqs[r3].route = "tokens" /\ reqs[r3].pc = "done"
        /\ reqs[r3].resp.isRegistered
        /\ \A d \in DocsOf(store, reqs[r1].userId) : d.isRegistered

\* C16: the store operation of every POST /tokens/register {userId}, the first
\* or a repeated one, leaves exactly one record of the user with isRegistered
\* true; the record is new with tokens 0 and league Bronze when the user had
\* none, and otherwise keeps the tokens and the league it had; the request is
\* answered 200 with isRegistered true.
C16_RegisterIdempotentFramed ==
    [][\A r \in Slots :
          (reqs[r].route = "register" /\ reqs[r].pc = "update" /\ reqs'[r].pc # "update")
            => LET u      == reqs[r].userId
                   before == DocsOf(store, u)
                   after  == DocsOf(store', u)
               IN  /\ Cardinality(after) = 1
                   /\ \A e \in after :
                        /\ e.isRegistered
                        /\ before = {} => e.tokens = 0 /\ e.league = "Bronze"
                        /\ \A d \in before : e.tokens = d.tokens /\ e.league = d.league
                   /\ store' \ after = store \ before
                   /\ reqs'[r].pc = "done"
                   /\ reqs'[r].resp.status = 200
                   /\ reqs'[r].resp.userId = u
                   /\ reqs'[r].resp.isRegistered]_vars

\* C16 witness: POST /tokens/register has been answered twice for a user whose
\* record holds a balance in the Silver league, and the record still holds it
C16_Witness ==
    \E r1, r2 \in Slots :
        /\ r1 < r2
        /\ reqs[r1].route = "register" /\ reqs[r1].pc = "done"
        /\ reqs[r2].route = "register" /\ reqs[r2].pc = "done"
        /\ reqs[r1].resp.isRegistered /\ reqs[r2].resp.isRegistered
        /\ reqs[r2].doc.tokens = 12
        /\ \E d \in DocsOf(store, reqs[r1].userId) :
              d.tokens = 12 /\ d.league = "Silver" /\ d.isRegistered

\* The example scenario has run: for user U1, who had no record, GET /tokens,
\* then POST /tokens/add with amount 12, then POST /tokens/add with amount 40,
\* each answered before the next was sent
ExampleScenario ==
    /\ MaxReqs >= 3
    /\ \A r \in 1..3 : /\ reqs[r].pc = "done"
                        /\ reqs[r].userId = <<"U1">>
                        /\ ~reqs[r].concurrent
    /\ reqs[1].route = "tokens"
    /\ reqs[2].route = "add" /\ reqs[2].isNumber /\ reqs[2].amount = 12
    /\ reqs[3].route = "add" /\ reqs[3].isNumber /\ reqs[3].amount = 40

\* The answers of the first two requests of the example scenario
ExampleFirstAnswers ==
    /\ reqs[1].resp.status = 200
    /\ reqs[1].resp.tokens = 0
    /\ reqs[1].resp.league = "Bronze"
    /\ reqs[1].resp.isRegistered = FALSE
    /\ reqs[2].resp.status = 200
    /\ reqs[2].resp.tokens = 12
    /\ reqs[2].resp.league = "Silver"
    /\ reqs[3].resp.status = 200
    /\ reqs[3].resp.tokens = 52

\* C19 as stated: the example scenario answers tokens 0 / Bronze / not
\* registered, then newTotal 12 / Silver, then newTotal 52 with the top tier of
\* the classifier.
C19_ExampleReachesTopTier ==
    (build \in {"part_001", "index_a"} /\ ExampleScenario)
        => /\ ExampleFirstAnswers
           /\ reqs[3].resp.league = TierOrder(build)[Len(TierOrder(build))]

\* C19 as amended: the example scenario answers tokens 0 / Bronze / not
\* registered, then newTotal 12 / Silver, then newTotal 52 with the league of
\* 52: Diamond, the top tier, under calculateLeague; Platinum, which is not the
\* top tier, under determineLeague.
C19_ExampleScenario ==
    ExampleScenario
        => /\ ExampleFirstAnswers
           /\ build \in OAuthBuilds
                => /\ reqs[3].resp.league = "Diamond"
                   /\ tierRank(build, "Diamond") = Len(TierOrder(build))
           /\ build \notin OAuthBuilds
                => /\ reqs[3].resp.league = "Platinum"
                   /\ tierRank(build, "Platinum") < Len(TierOrder(build))

\* C19 witness: the example scenario has run under calculateLeague and its
\* last answer is newTotal 52, league Diamond
C19_Witness ==
    /\ ExampleScenario
    /\ build = "part_001"
    /\ reqs[3].resp.tokens = 52
    /\ reqs[3].resp.league = "Diamond"

\* C20 as stated: every stored balance is a non-negative integer, after any
\* sequence of GET /tokens, POST /tokens/add and POST /tokens/register.
C20_BalanceNonNegative ==
    (build \in {"part_001", "part_003"})
        => \A d \in store : d.tokens >= 0

\* The paths the contract exempts: /health, /auth, and everything under /oauth/
ContractExempt(path) ==
    path = HealthPath \/ path = AuthPath \/ StartsWith(path, <<"/oauth", "/">>)

\* C10 as stated: a request to a path that is not /health, /auth or under
\* /oauth/ whose Authorization header is not exactly `Bearer <key>` is answered
\* 401 and makes no store operation; a request to /health, /auth or /oauth/* is
\* never rejected by the middleware.
C10_AccessGate ==
    (build \in {"part_001", "index_a"} /\ gate.verdict # "none")
        => /\ (~ContractExempt(gate.path) /\ gate.auth # <<"Bearer", " ">> \o ApiKey)
                => /\ gate.verdict = "reject"
                   /\ reqs[1].resp.status = 401
                   /\ reqs[1].ops = 0
           /\ ContractExempt(gate.path) => gate.verdict = "next"

---------------------------------------------------------------------------
(* Properties of failures, of GET /auth and of the separation of the routes *)

\* C23 as stated: a request whose store operation failed is answered with
\* HTTP 500 and a structured JSON error (part_001 and index.js:1-162).
C23_StoreFailureAnswered ==
    build \in {"part_001", "index_a"} =>
        \A r \in Slots :
            reqs[r].failed => /\ reqs[r].pc = "done"
                              /\ reqs[r].resp.status = 500
                              /\ Truthy(reqs[r].resp.error)

\* C25: every GET /auth draws a state no earlier call has drawn, sets it as
\* the oauth_state cookie and redirects to the provider's authorization URL
\* whose state parameter is the cookie value of the same response; the step
\* starts no provider call and leaves the ledger store and its requests as
\* they were.
C25_BeginAuth ==
    [][(build \in {"part_001", "index_b"} /\ authResp' # authResp)
          => /\ Truthy(authResp'.setCookie)
             /\ authResp'.setCookie \notin issued
             /\ cookie' = authResp'.setCookie
             /\ authResp'.location = "provider"
             /\ authResp'.urlState = authResp'.setCookie
             /\ cb' = cb /\ ncb' = ncb /\ inbox' = inbox
             /\ store' = store /\ reqs' = reqs]_vars

\* GET /auth has been served twice, the second time over a store with a record
C25_Witness ==
    /\ build \in {"part_001", "index_b"}
    /\ Cardinality(issued) = 2
    /\ store # {}
    /\ authResp.location = "provider"
    /\ authResp.urlState = authResp.setCookie
    /\ cookie = authResp.setCookie

\* The request lacks a field its route requires
ClientInputError(q) ==
    \/ q.route \in {"tokens", "add", "register"} /\ ~Truthy(q.userId)
    \/ q.route = "add" /\ ~q.isNumber

\* C24: GET /tokens without userId, POST /tokens/add without userId or with an
\* amount that is not a number, and POST /tokens/register without userId are
\* answered 400 with an `error` field and make no store operation; the step
\* that answers them leaves the store as it was.
C24_ClientInputErrors ==
    /\ [](build = "part_001" =>
            \A r \in Slots :
                (reqs[r].pc # "idle" /\ ClientInputError(reqs[r]))
                    => /\ reqs[r].pc = "done"
                       /\ reqs[r].resp.status = 400
                       /\ Truthy(reqs[r].resp.error)
                       /\ reqs[r].ops = 0)
    /\ [][build = "part_001" =>
            \A r \in Slots :
                (reqs[r].pc = "idle" /\ reqs'[r].pc # "idle" /\ ClientInputError(reqs'[r]))
                    => store' = store]_vars

\* A non-numeric amount for a known user is refused while the store holds records
C24_Witness ==
    /\ build = "part_001"
    /\ store # {}
    /\ \E r \in Slots : /\ reqs[r].route = "add"
                         /\ Truthy(reqs[r].userId)
                         /\ ~reqs[r].isNumber
                         /\ reqs[r].resp.status = 400
    /\ \E r \in Slots : /\ reqs[r].route = "tokens"
                         /\ ~Truthy(reqs[r].userId)
                         /\ reqs[r].resp.status = 400

\* The stored record of userId is registered and carries the league of its total
RegisteredAndClassified(b, coll, userId) ==
    LET d == FindOneResult(coll, userId)
    IN  ~d.isNull /\ d.isRegistered /\ d.league = Classify(b, d.tokens)

\* C26 as stated: when a POST /tokens/add of the read-then-write builds is
\* answered 200, the user's stored record has isRegistered = true and its
\* league is the classification of its stored total.
C26_RegisteredAndReclassified ==
    [][(build \in {"index_a", "part_003"}) =>
          \A r \in Slots :
              (reqs[r].route = "add" /\ reqs[r].pc # "done"
                  /\ reqs'[r].pc = "done" /\ reqs'[r].resp.status = 200)
                  => RegisteredAndClassified(build, store', reqs[r].userId)]_vars

\* The first callback arrives after GET /auth has been served at least twice
FirstCallbackAfterTwoInitiations ==
    build \in RedirectBuilds /\ ncb = 0 /\ ncb' = 1 /\ Cardinality(issued) >= 2

\* The state of the most recent GET /auth
LatestState == authResp.setCookie

\* C27 as stated: after two GET /auth and no callback the cookie holds the
\* state of the most recent call; a callback carrying an earlier state is
\* answered state_mismatch, and a callback that passes validation carries the
\* most recent state.
C27_EarlierStateRoutesToMismatch ==
    [][FirstCallbackAfterTwoInitiations
          => /\ cookie = LatestState
             /\ (cb'.state \in issued \ {LatestState})
                   => /\ cb'.pc = "done"
                      /\ cb'.resp.error = <<"state_mismatch">>
                      /\ cb'.tokenCalls = 0
             /\ (cb'.pc # "done") => cb'.state = LatestState]_vars

\* C27 amended: the same, the earlier state being answered state_mismatch
\* when the callback carries no non-empty error parameter.
C27_LatestInitiationWins ==
    [][FirstCallbackAfterTwoInitiations
          => /\ cookie = LatestState
             /\ (cb'.state \in issued \ {LatestState} /\ ~Truthy(cb'.error))
                   => /\ cb'.pc = "done"
                      /\ cb'.resp.error = <<"state_mismatch">>
                      /\ cb'.tokenCalls = 0
             /\ (cb'.pc # "done") => cb'.state = LatestState]_vars

\* The first callback carried the earlier of two states and was refused
C27_Witness ==
    /\ build \in RedirectBuilds
    /\ ncb = 1
    /\ cb.stored = LatestState
    /\ cb.state \in issued \ {LatestState}
    /\ ~Truthy(cb.error)
    /\ cb.resp.error = <<"state_mismatch">>

\* A step of GET /auth or of GET /oauth/callback
OAuthStep == authResp' # authResp \/ cb' # cb \/ ncb' # ncb

\* A step of GET /tokens, POST /tokens/add or POST /tokens/register
LedgerRouteStep ==
    \E r \in Slots : /\ reqs'[r] # reqs[r]
                     /\ reqs'[r].route \in {"tokens", "add", "register"}

\* C28: a step of GET /auth or GET /oauth/callback, the completing one
\* included, leaves the ledger store as it was; the store changes only in a
\* step of GET /tokens, POST /tokens/add or POST /tokens/register.
C28_OAuthLeavesLedger ==
    [][(build \in RedirectBuilds)
          => /\ OAuthStep => store' = store
             /\ store' # store => LedgerRouteStep]_vars

\* A login has completed over a store that holds a record
C28_Witness ==
    /\ build \in RedirectBuilds
    /\ cb.pc = "done"
    /\ SuccessRedirect(cb.resp)
    /\ Truthy(cb.resp.subject)
    /\ store # {}

---------------------------------------------------------------------------
(* Specifications *)

NoAuthResponse == [setCookie |-> Undefined, urlState |-> Undefined, location |-> "none"]

InitService ==
    /\ build \in Builds
    /\ cookie = Undefined
    /\ issued = {}
    /\ authResp = NoAuthResponse
    /\ cb = NoInvocation
    /\ prev = [answered |-> FALSE, code |-> Undefined, state |-> Undefined,
               error |-> Undefined]
    /\ ncb = 0
    /\ store = {}
    /\ reqs = [r \in Slots |-> NoRequest]
    /\ gate = NoGateRecord
    /\ inbox = NoAnswer

Init == InitService /\ probe = NoProbe

\* The OAuth flow of one browser (which sends no Authorization header)
InitOAuth == Init /\ build \in OAuthBuilds

NextOAuth ==
    \/ Auth(Undefined)
    \/ \E code \in Codes, st \in ReturnedStates(issued), err \in ErrorParams,
          desc \in ErrorDescriptions :
         CallbackBegin(Undefined, code, st, err, desc)
    \/ \E o \in FetchOutcomes, status \in ProviderErrorStatuses, body \in TokenBodies :
         TokenAnswer(o, status, body)
    \/ \E o \in FetchOutcomes, body \in UserInfoBodies : UserinfoAnswer(o, body)

SpecOAuth == InitOAuth /\ [][NextOAuth]_vars

\* The OAuth flow with the provider's answer and the handler's resumption as
\* separate steps.  The event loop is fair to a handler whose promise has
\* settled; nothing obliges the provider to answer, and the code sets no timer.
NextCallback ==
    \/ Auth(Undefined)
    \/ \E st \in ReturnedStates(issued), err \in ErrorParams :
         CallbackBegin(Undefined, <<"code1">>, st, err, Undefined)
    \/ \E o \in FetchOutcomes, body \in TokenBodies, info \in UserInfoBodies :
         ProviderAnswers(o, 400, body, info)
    \/ Resume

SpecCallback == InitOAuth /\ [][NextCallback]_vars /\ WF_vars(Resume)

\* The ledger routes under concurrent requests that carry the API key
LedgerRequests == { <<"GET", TokensPath>>, <<"POST", AddPath>>, <<"POST", RegisterPath>> }

\* The slots are taken in the order the requests arrive
NextSlot(r) == \A s \in 1..(r - 1) : reqs[s].pc # "idle"

NextLedger ==
    \/ \E r \in Slots, mp \in LedgerRequests, u \in UserIds, a \in BodyAmounts :
         NextSlot(r) /\ Receive(r, mp[1], mp[2], <<"Bearer", " ">> \o ApiKey, u, a)
    \/ \E r \in Slots : FindOne(r)
    \/ \E r \in Slots : Create(r)
    \/ \E r \in Slots : FindOneAndUpdate(r)
    \/ \E r \in Slots : Save(r)

SpecLedger == Init /\ [][NextLedger]_vars

\* The ledger routes with well-formed requests for one user, over a store
\* whose operations may fail
NextStore ==
    \/ \E r \in Slots, mp \in LedgerRequests, a \in {1, 12} :
         NextSlot(r) /\ Receive(r, mp[1], mp[2], <<"Bearer", " ">> \o ApiKey, <<"U1">>,
                                [isNumber |-> TRUE, value |-> a])
    \/ \E r \in Slots : FindOne(r)
    \/ \E r \in Slots : Create(r)
    \/ \E r \in Slots : FindOneAndUpdate(r)
    \/ \E r \in Slots : Save(r)
    \/ \E r \in Slots : StoreFails(r)

SpecStore == Init /\ [][NextStore]_vars

\* One browser's OAuth flow while a ledger client's request for user U1 is
\* being served
NextService ==
    \/ Auth(Undefined)
    \/ \E st \in ReturnedStates(issued), err \in {Undefined, <<"access_denied", "&", "x">>} :
         CallbackBegin(Undefined, <<"code1">>, st, err, Undefined)
    \/ \E o \in FetchOutcomes, body \in TokenBodies : TokenAnswer(o, 400, body)
    \/ \E o \in FetchOutcomes, body \in UserInfoBodies : UserinfoAnswer(o, body)
    \/ \E mp \in LedgerRequests :
         Receive(1, mp[1], mp[2], <<"Bearer", " ">> \o ApiKey, <<"U1">>,
                 [isNumber |-> TRUE, value |-> 12])
    \/ FindOne(1)
    \/ Create(1)
    \/ FindOneAndUpdate(1)
    \/ Save(1)

SpecService == InitOAuth /\ [][NextService]_vars

\* Every kind of request, one at a time, through the middleware
NextGate ==
    \/ \E m \in Methods, p \in Paths, h \in AuthHeaders :
         Receive(1, m, p, h, <<"U1">>, [isNumber |-> TRUE, value |-> 1])
    \/ \E h \in AuthHeaders : Auth(h)
    \/ \E h \in AuthHeaders, st \in ReturnedStates(issued) :
         CallbackBegin(h, <<"code1">>, st, Undefined, Undefined)
    \/ FindOne(1)
    \/ Create(1)
    \/ FindOneAndUpdate(1)
    \/ Save(1)

SpecGate == Init /\ [][NextGate]_vars

\* The league classifier applied to every pair of probe balances
InitClassifier ==
    /\ InitService
    /\ probe \in { [pc |-> "input", b1 |-> x, b2 |-> y, t1 |-> "none", t2 |-> "none"] :
                    x \in ProbeBalances, y \in ProbeBalances }

NextClassifier == ClassifyProbe

SpecClassifier == InitClassifier /\ [][NextClassifier]_vars

Next == NextOAuth \/ NextLedger \/ NextGate \/ NextClassifier \/ NextCallback
           \/ NextStore \/ NextService

Spec == Init /\ [][Next]_vars

=============================================================================
